---- MODULE Spec2Model ----
(***************************************************************************)
(* Model of the chat-bot server: the Redis session repository              *)
(* (app/repositories/redis_database/redis_repository.py), the LLM          *)
(* repository (app/repositories/google_genai_llm/google_genai_llm.py) and  *)
(* the /user/chat handler (app/routes/chat.py).                            *)
(*                                                                         *)
(* Every request is an asyncio task; a task gives up control only at an    *)
(* await, so one action below is the code between two awaits.              *)
(***************************************************************************)
EXTENDS Integers, Sequences, FiniteSets, TLC

\* ------------------------------------------------------------------ bounds
\* uuid4 values the model lets create_chat_data generate
MaxKeys == 2
\* requests started over a whole run
MaxOps == 3

\* ------------------------------------------------------------- value sets
Procs == {1, 2}

\* Optional[UUID] session_id: 0 stands for None (str(None) = "None" is a key
\* that uuid4 never generates), 1..MaxKeys for the UUIDs the model knows.
NoneId == 0
Uuids == 1..MaxKeys
SessionIds == {NoneId} \cup Uuids

\* timestamp strings a caller may send: "iso" is one that fromisoformat or the
\* fallback strptime("%Y-%m-%d %H:%M:%S%z") parses, "bad" one that neither does
TsFormats == {"iso", "bad"}
TsString(f) == [type |-> "str", fmt |-> f]
TsDatetime == [type |-> "datetime", fmt |-> "iso"]

\* Request bodies (ChatInput, CreateChatDataInput, UpdateChatDataInput: the same
\* four fields): every role, text and timestamp format occurs in one of them.
Bodies == { [role |-> "user", timestamp |-> TsString("iso"), message |-> "a"],
            [role |-> "assistant", timestamp |-> TsString("bad"), message |-> "b"] }
WithSession(b, sid) ==
    [session_id |-> sid, role |-> b.role, timestamp |-> b.timestamp,
     message |-> b.message]
ChatInput == {WithSession(b, sid) : b \in Bodies, sid \in SessionIds}
\* the body of /chats/start: its session_id, None or a UUID, is overwritten
CreateInput == {WithSession(b, sid) : b \in Bodies, sid \in {NoneId, 1}}

NoRec == [absent |-> TRUE]
NoMsg == [none |-> TRUE]
NoRes == [status |-> 0, cause |-> [type |-> "none", status |-> 0]]

VARIABLES
    store,      \* the Redis keyspace: key -> JSON record or NoRec
    nextKey,    \* the next value uuid4 returns
    opsLeft,    \* requests that may still start
    pc,         \* where each task stands ("done": it has returned or raised)
    op,         \* the operation each task runs
    key,        \* the task's session identifier
    msg,        \* the message the task is persisting (chat_data)
    existing,   \* update_chat_data: existing_data as read
    res,        \* what the caller received
    detected,   \* /user/chat: intent_detected, the classifier's output
    history,    \* /user/chat: chat_history, what get_chat_data returned
    llmCalls,   \* history: llm.agenerate calls the task's request has made
    appended    \* history: per key, the messages of successful appends, in write order

vars == <<store, nextKey, opsLeft, pc, op, key, msg, existing, res,
          detected, history, llmCalls, appended>>


\* ------------------------------------------------- exceptions and handlers
\* str(e), as the handlers put it into the detail of what they raise
NoCause == [type |-> "none", status |-> 0]
CauseOf(e) == [type |-> e.type, status |-> e.status]

HTTPException(status, detail, cause) ==
    [type |-> "HTTPException", status |-> status, detail |-> detail, cause |-> cause]

RedisError == [type |-> "RedisError", status |-> 0]
ValueError == [type |-> "ValueError", status |-> 0]
ValidationError == [type |-> "ValidationError", status |-> 0]
\* whatever llm.agenerate raises
LlmError == [type |-> "LlmError", status |-> 0]

\* a handler that reports a Redis failure as a fault of the request
handle_redis_error_bad_request(e, message) == HTTPException(400, message, CauseOf(e))

\* RedisAPIException.handle_redis_error: always raises 503
handle_redis_error(e, message) == HTTPException(503, message, CauseOf(e))

\* RedisAPIException.handle_unexpected_error: always raises 500
handle_unexpected_error(e, message) == HTTPException(500, message, CauseOf(e))

\* The two except clauses that close every repository method: "except
\* RedisError" first, then "except Exception", which also catches an
\* HTTPException raised inside the try block (HTTPException is an Exception).
RepositoryExcept(e, message) ==
    IF e.type = "RedisError"
    THEN handle_redis_error(e, message)
    ELSE handle_unexpected_error(e, message)

\* what the caller of a request receives
Failure(exc) == [status |-> exc.status, detail |-> exc.detail, cause |-> exc.cause,
                 session_id |-> NoneId, messages |-> <<>>, body |-> NoMsg]
Success(sid, messages, body) ==
    [status |-> 200, detail |-> "ok", cause |-> NoCause,
     session_id |-> sid, messages |-> messages, body |-> body]

\* ------------------------------------------------------------ JSON records
\* the record written with no session identifier of its own
to_json_without_session(chat_data) ==
    [session_id |-> NoneId, role |-> chat_data.role,
     timestamp |-> [type |-> "str", fmt |-> chat_data.timestamp.fmt],
     message |-> chat_data.message,
     has_messages |-> FALSE, messages |-> <<>>]

\* CreateChatDataInput.to_json: the flat dict of the input itself; it has no
\* "messages" key
to_json(chat_data) ==
    [session_id |-> chat_data.session_id, role |-> chat_data.role,
     timestamp |-> [type |-> "str", fmt |-> chat_data.timestamp.fmt],
     message |-> chat_data.message,
     has_messages |-> FALSE, messages |-> <<>>]

\* update_chat_data, lines 190-196: chat_data.dict() with the UUID and a
\* datetime timestamp turned into strings
new_message(chat_data) ==
    [session_id |-> chat_data.session_id, role |-> chat_data.role,
     timestamp |-> IF chat_data.timestamp.type = "datetime"
                   THEN TsString("iso") ELSE chat_data.timestamp,
     message |-> chat_data.message]

\* chat_dict.get("messages", [])
messages_of(chat_dict) ==
    IF chat_dict.has_messages THEN chat_dict.messages ELSE <<>>

\* the append written as an assignment of a fresh list: the history is dropped
AppendMessageDropsHistory(chat_history, m) ==
    [chat_history EXCEPT !.has_messages = TRUE, !.messages = <<m>>]

\* update_chat_data, line 199: chat_history.setdefault("messages", []).append(m)
AppendMessage(chat_history, m) ==
    [chat_history EXCEPT !.has_messages = TRUE,
                         !.messages = Append(messages_of(chat_history), m)]

\* get_chat_data, lines 149-154: a string timestamp is parsed into a datetime
\* (fromisoformat, then strptime); a string in neither format raises ValueError
TimestampParses(ts) == ts.type # "str" \/ ts.fmt = "iso"
ParseTimestamp(ts) == IF ts.type = "str" THEN TsDatetime ELSE ts

\* get_chat_data, lines 140-154, for one message
PreprocessMessage(m) == [m EXCEPT !.timestamp = ParseTimestamp(m.timestamp)]

\* get_chat_data_output.Message declares timestamp: str; Message(**msg)
\* rejects any other type
MessageAccepts(m) == m.timestamp.type = "str"

\* get_chat_data, lines 132-164, once redis_client.get has answered
GetChatData(response, session_id) ==
    IF response = NoRec
    THEN [ok |-> FALSE, exc |-> HTTPException(404, "not found", NoCause)]
    ELSE LET messages_data == messages_of(response)
             idx == DOMAIN messages_data
         IN  IF \E i \in idx : ~TimestampParses(messages_data[i].timestamp)
             THEN [ok |-> FALSE, exc |-> ValueError]
             ELSE LET pre == [i \in idx |-> PreprocessMessage(messages_data[i])]
                  IN  IF \E i \in idx : ~MessageAccepts(pre[i])
                      THEN [ok |-> FALSE, exc |-> ValidationError]
                      ELSE [ok |-> TRUE, value |-> Success(session_id, pre, NoMsg)]

\* ------------------------------------------------------------ the model
\* A text the model returns: its words once trimmed and lower-cased, whether it
\* has upper-case letters, whether white space surrounds it.
Raw(word, upper, padded) == [word |-> word, upper |-> upper, padded |-> padded]
strip(t) == [t EXCEPT !.padded = FALSE]
lower(t) == [t EXCEPT !.upper = FALSE]
\* a Python string literal
Lit(word) == Raw(word, FALSE, FALSE)
\* len() of a trimmed text; "essay" stands for an answer of 300 characters
TextLen(t) ==
    CASE t.word = "" -> 0
      [] t.word = "booking" -> 7
      [] t.word = "quote" -> 5
      [] t.word = "build lead times" -> 16
      [] t.word = "accounts" -> 8
      [] t.word = "unknown" -> 7
      [] t.word = "i think booking" -> 15
      [] t.word = "essay" -> 300
      [] OTHER -> 1

\* what llm.agenerate may answer to the intent prompt
IntentTexts ==
    { Lit("booking"), Raw("booking", TRUE, TRUE), Lit("quote"),
      Lit("build lead times"), Lit("accounts"), Raw("unknown", TRUE, FALSE),
      Lit("i think booking"), Raw("", FALSE, TRUE), Lit("essay") }
\* what llm.agenerate may answer to the conversation prompt
ReplyTexts == {"r"}
\* llm.agenerate answers or raises
LlmOutcomes == {"ok", "error"}

\* intent_detector, line 116
intents == {"booking", "quote", "build lead times", "accounts", "unknown"}

booking_questions == <<"booking1", "booking2", "booking3", "booking4", "booking5">>
quote_questions == <<"quote1", "quote2", "quote3", "quote4", "quote5">>
build_lead_times_questions == <<"build1", "build2", "build3", "build4", "build5">>
accounts_questions == <<"accounts1", "accounts2", "accounts3", "accounts4", "accounts5">>
unknown_questions == <<>>

\* the match with the booking questions as its default case
intent_based_questions_default_booking(detected_intent_text) ==
    CASE detected_intent_text = Lit("quote") -> quote_questions
      [] detected_intent_text = Lit("build lead times") -> build_lead_times_questions
      [] detected_intent_text = Lit("accounts") -> accounts_questions
      [] detected_intent_text = Lit("unknown") -> unknown_questions
      [] OTHER -> booking_questions

\* intent_detector, lines 168-180: match detected_intent_text
intent_based_questions(detected_intent_text) ==
    CASE detected_intent_text = Lit("booking") -> booking_questions
      [] detected_intent_text = Lit("quote") -> quote_questions
      [] detected_intent_text = Lit("build lead times") -> build_lead_times_questions
      [] detected_intent_text = Lit("accounts") -> accounts_questions
      [] detected_intent_text = Lit("unknown") -> unknown_questions
      [] OTHER -> unknown_questions

\* IntentDetectorOutput's field constraints: session_id a UUID (not None),
\* detected_intent of 1 to 255 characters
IntentDetectorOutputAccepts(session_id, detected_intent) ==
    /\ session_id # NoneId
    /\ TextLen(detected_intent) >= 1
    /\ TextLen(detected_intent) <= 255

NoIntent == [none |-> TRUE]

\* intent_detector, lines 134 and 183: the label that is returned
detected_intent_of(text) == lower(strip(text))

\* GoogleGeminaiRepository.intent_detector, given what llm.agenerate did:
\* every exception of the try block becomes HTTPException(400)
intent_detector(user_message, o, text) ==
    IF o = "error"
    THEN [ok |-> FALSE,
          exc |-> HTTPException(400, "detecting user intent", CauseOf(LlmError))]
    ELSE LET detected_intent_text == detected_intent_of(text)
         IN  IF ~IntentDetectorOutputAccepts(user_message.session_id, detected_intent_text)
             THEN [ok |-> FALSE,
                   exc |-> HTTPException(400, "detecting user intent",
                                         CauseOf(ValidationError))]
             ELSE [ok |-> TRUE,
                   value |-> [session_id |-> user_message.session_id,
                              detected_intent |-> detected_intent_text,
                              questions |-> intent_based_questions(detected_intent_text)]]

\* ChatBotContinueOutput(message, role, timestamp, session_id)
ChatBotContinueOutput(message, session_id) ==
    [session_id |-> session_id, role |-> "assistant",
     timestamp |-> TsDatetime, message |-> message]

\* the responder building its reply without the session identifier it was given
chatbot_continue_conversation_drops_session(session_id, chat_history, questions, o, text) ==
    IF o = "error"
    THEN [ok |-> FALSE, calls |-> 1,
          exc |-> HTTPException(500, "LLM generation failed", CauseOf(LlmError))]
    ELSE [ok |-> TRUE, calls |-> 1, value |-> ChatBotContinueOutput(text, NoneId)]

\* the responder calling the model a second time when the first call fails
chatbot_continue_conversation_retries(session_id, chat_history, questions, o, text) ==
    IF o = "error"
    THEN [ok |-> FALSE, calls |-> 2,
          exc |-> HTTPException(500, "LLM generation failed", CauseOf(LlmError))]
    ELSE [ok |-> TRUE, calls |-> 1, value |-> ChatBotContinueOutput(text, session_id)]

\* GoogleGeminaiRepository.chatbot_continue_conversation, given what
\* llm.agenerate did. Nothing is checked before the call at line 265.
chatbot_continue_conversation(session_id, chat_history, questions, o, text) ==
    IF o = "error"
    THEN [ok |-> FALSE, calls |-> 1,
          exc |-> HTTPException(500, "LLM generation failed", CauseOf(LlmError))]
    ELSE [ok |-> TRUE, calls |-> 1, value |-> ChatBotContinueOutput(text, session_id)]

\* ---------------------------------------------------------------- Redis
\* redis_client.get / delete either answer or raise RedisError;
\* redis_client.set may also answer with a falsy result
ReadOutcomes == {"ok", "error"}
WriteOutcomes == {"ok", "falsy", "error"}

Init ==
    /\ store = [k \in SessionIds |-> NoRec]
    /\ nextKey = 1
    /\ opsLeft = MaxOps
    /\ pc = [p \in Procs |-> "done"]
    /\ op = [p \in Procs |-> "none"]
    /\ key = [p \in Procs |-> NoneId]
    /\ msg = [p \in Procs |-> NoMsg]
    /\ existing = [p \in Procs |-> NoRec]
    /\ res = [p \in Procs |-> NoRes]
    /\ detected = [p \in Procs |-> NoIntent]
    /\ history = [p \in Procs |-> <<>>]
    /\ llmCalls = [p \in Procs |-> 0]
    /\ appended = [k \in SessionIds |-> <<>>]

\* A request arrives at a free task. The handler runs to its first await and
\* that call is answered in the same step: nothing it does before touches
\* shared state.
Begin(p, o, k, m) ==
    /\ pc[p] = "done"
    /\ opsLeft > 0
    /\ opsLeft' = opsLeft - 1
    /\ op' = [op EXCEPT ![p] = o]
    /\ key' = [key EXCEPT ![p] = k]
    /\ msg' = [msg EXCEPT ![p] = m]

\* a request that calls no model: the handler has no locals of the chat turn
NoTurn(p) ==
    /\ llmCalls' = [llmCalls EXCEPT ![p] = 0]
    /\ UNCHANGED <<detected, history>>

\* the task ends: the caller gets r
Finish(p, r) ==
    /\ pc' = [pc EXCEPT ![p] = "done"]
    /\ res' = [res EXCEPT ![p] = r]

\* create_chat_data keeping a session identifier that the caller supplied
CreateKeepsCallerId(p) ==
    \E m \in CreateInput, o \in WriteOutcomes :
        LET k == IF m.session_id # NoneId THEN m.session_id ELSE nextKey
            chat_data == [m EXCEPT !.session_id = k]
        IN  /\ nextKey <= MaxKeys
            /\ Begin(p, "create", k, chat_data)
            /\ nextKey' = nextKey + 1
            /\ CASE o = "ok" ->
                      /\ store' = [store EXCEPT ![k] = to_json(chat_data)]
                      /\ Finish(p, Success(k, <<>>, NoMsg))
                 [] o = "falsy" ->
                      /\ Finish(p, Failure(RepositoryExcept(
                             HTTPException(500, "Failed to save chat data", NoCause),
                             "Unexpected error while creating chat")))
                      /\ UNCHANGED store
                 [] o = "error" ->
                      /\ Finish(p, Failure(RepositoryExcept(RedisError,
                             "Redis error while creating chat")))
                      /\ UNCHANGED store
            /\ existing' = [existing EXCEPT ![p] = NoRec]
            /\ NoTurn(p)
            /\ UNCHANGED appended

\* RedisRepository.create_chat_data (POST /chats/start)
Create(p) ==
    \E m \in CreateInput, o \in WriteOutcomes :
        LET k == nextKey
            chat_data == [m EXCEPT !.session_id = k]
        IN  /\ nextKey <= MaxKeys
            /\ Begin(p, "create", k, chat_data)
            /\ nextKey' = nextKey + 1
            /\ CASE o = "ok" ->
                      /\ store' = [store EXCEPT ![k] = to_json(chat_data)]
                      /\ Finish(p, Success(k, <<>>, NoMsg))
                 [] o = "falsy" ->
                      /\ Finish(p, Failure(RepositoryExcept(
                             HTTPException(500, "Failed to save chat data", NoCause),
                             "Unexpected error while creating chat")))
                      /\ UNCHANGED store
                 [] o = "error" ->
                      /\ Finish(p, Failure(RepositoryExcept(RedisError,
                             "Redis error while creating chat")))
                      /\ UNCHANGED store
            /\ existing' = [existing EXCEPT ![p] = NoRec]
            /\ NoTurn(p)
            /\ UNCHANGED appended

\* RedisRepository.delete_chat_data (DELETE /chats/delete)
Delete(p) ==
    \E k \in Uuids, o \in ReadOutcomes :
        /\ Begin(p, "delete", k, NoMsg)
        /\ IF o = "error"
           THEN /\ Finish(p, Failure(RepositoryExcept(RedisError,
                       "Redis error while deleting chat")))
                /\ UNCHANGED store
           ELSE LET result == IF store[k] = NoRec THEN 0 ELSE 1
                IN  /\ store' = [store EXCEPT ![k] = NoRec]
                    /\ IF result = 0
                       THEN Finish(p, Failure(RepositoryExcept(
                                HTTPException(404, "does not exist", NoCause),
                                "Unexpected error while deleting chat")))
                       ELSE Finish(p, Success(k, <<>>, NoMsg))
        /\ existing' = [existing EXCEPT ![p] = NoRec]
        /\ NoTurn(p)
        /\ UNCHANGED <<nextKey, appended>>

\* get_chat_data as a whole, given what redis_client.get did
get_chat_data(o, response, session_id) ==
    IF o = "error"
    THEN Failure(RepositoryExcept(RedisError, "Redis error while fetching chat"))
    ELSE LET r == GetChatData(response, session_id)
         IN  IF r.ok THEN r.value
             ELSE Failure(RepositoryExcept(r.exc, "Unexpected error while fetching chat"))

\* get_chat_data removing a record whose messages it cannot return
GetDropsUnreadable(p) ==
    \E k \in Uuids, o \in ReadOutcomes :
        LET r == get_chat_data(o, store[k], k)
        IN  /\ Begin(p, "get", k, NoMsg)
            /\ Finish(p, r)
            /\ store' = IF o = "ok" /\ r.status # 200
                        THEN [store EXCEPT ![k] = NoRec] ELSE store
            /\ existing' = [existing EXCEPT ![p] = NoRec]
            /\ NoTurn(p)
            /\ UNCHANGED <<nextKey, appended>>

\* RedisRepository.get_chat_data (POST /chats/get/messages)
Get(p) ==
    \E k \in Uuids, o \in ReadOutcomes :
        /\ Begin(p, "get", k, NoMsg)
        /\ Finish(p, get_chat_data(o, store[k], k))
        /\ existing' = [existing EXCEPT ![p] = NoRec]
        /\ NoTurn(p)
        /\ UNCHANGED <<store, nextKey, appended>>

\* Per-session mutual exclusion around the read-modify-write of
\* update_chat_data: no other task is between its read and its write of key k.
\* The code takes no such lock; SpecLocked below adds it.
LockFree(p, k) ==
    \A q \in Procs \ {p} : ~(pc[q] \in {"upd_write", "reply_write"} /\ key[q] = k)
MayRead(locked, p, k) == locked => LockFree(p, k)

\* the read of an append that starts an empty record when it finds none
ReadExistingOrNew(p, k, o, nxt) ==
    CASE o = "error" ->
           /\ Finish(p, Failure(RepositoryExcept(RedisError,
                  "Redis error while updating chat")))
           /\ existing' = [existing EXCEPT ![p] = NoRec]
      [] o = "ok" ->
           /\ existing' = [existing EXCEPT ![p] =
                  IF store[k] = NoRec
                  THEN [session_id |-> k, role |-> "user",
                        timestamp |-> TsString("iso"), message |-> "a",
                        has_messages |-> FALSE, messages |-> <<>>]
                  ELSE store[k]]
           /\ pc' = [pc EXCEPT ![p] = nxt]
           /\ res' = [res EXCEPT ![p] = NoRes]

\* update_chat_data up to the answer of its first await,
\* existing_data = redis_client.get(key); on success the task goes on to nxt
ReadExisting(p, k, o, nxt) ==
    CASE o = "error" ->
           /\ Finish(p, Failure(RepositoryExcept(RedisError,
                  "Redis error while updating chat")))
           /\ existing' = [existing EXCEPT ![p] = NoRec]
      [] o = "ok" /\ store[k] = NoRec ->
           /\ Finish(p, Failure(RepositoryExcept(
                  HTTPException(404, "does not exist", NoCause),
                  "Unexpected error while updating chat")))
           /\ existing' = [existing EXCEPT ![p] = NoRec]
      [] o = "ok" /\ store[k] # NoRec ->
           /\ existing' = [existing EXCEPT ![p] = store[k]]
           /\ pc' = [pc EXCEPT ![p] = nxt]
           /\ res' = [res EXCEPT ![p] = NoRes]

\* a request whose handler starts with update_chat_data(m): the read
BeginUpdate(p, o, locked) ==
    \E m \in ChatInput, r \in ReadOutcomes :
        /\ MayRead(locked, p, m.session_id)
        /\ Begin(p, o, m.session_id, m)
        /\ ReadExisting(p, m.session_id, r, "upd_write")
        /\ NoTurn(p)
        /\ UNCHANGED <<store, nextKey, appended>>

\* RedisRepository.update_chat_data called with one message: the read
UpdateRead(p) == BeginUpdate(p, "update", FALSE)

\* the write done as an append on the record the store holds at that moment
WrittenRecordAtomic(p) ==
    AppendMessage(IF store[key[p]] = NoRec THEN existing[p] ELSE store[key[p]],
                  new_message(msg[p]))

\* update_chat_data, lines 187-205: the record that is written back
WrittenRecord(p) == AppendMessage(existing[p], new_message(msg[p]))

\* the write going to one fixed key instead of the key of the message
WriteBackUnderOneKey(p, o) ==
    CASE o = "ok" ->
           /\ store' = [store EXCEPT ![1] = WrittenRecord(p)]
           /\ appended' = [appended EXCEPT
                             ![key[p]] = Append(@, new_message(msg[p]))]
      [] o # "ok" ->
           UNCHANGED <<store, appended>>

\* update_chat_data from the answer of its second await, redis_client.set
WriteBack(p, o) ==
    CASE o = "ok" ->
           /\ store' = [store EXCEPT ![key[p]] = WrittenRecord(p)]
           /\ appended' = [appended EXCEPT
                             ![key[p]] = Append(@, new_message(msg[p]))]
      [] o # "ok" ->
           UNCHANGED <<store, appended>>

update_failure(o) ==
    IF o = "falsy"
    THEN Failure(RepositoryExcept(HTTPException(500, "Failed to update session", NoCause),
                                  "Unexpected error while updating chat"))
    ELSE Failure(RepositoryExcept(RedisError, "Redis error while updating chat"))

\* RedisRepository.update_chat_data called with one message: the write
UpdateWrite(p) ==
    /\ pc[p] = "upd_write"
    /\ op[p] = "update"
    /\ \E o \in WriteOutcomes :
         /\ WriteBack(p, o)
         /\ Finish(p, IF o = "ok" THEN Success(key[p], <<>>, NoMsg)
                      ELSE update_failure(o))
    /\ UNCHANGED <<nextKey, opsLeft, op, key, msg, existing,
                   detected, history, llmCalls>>

\* ------------------------------------------------- POST /user/chat (chat)
\* chat() and chat_converse_continue() are the same sequence of awaits:
\* update_chat_data(user_message), intent_detector, get_chat_data,
\* chatbot_continue_conversation, update_chat_data(llm_response), return.
\* An exception of any of them leaves the handler at once.

\* step 1, first half: the request arrives, update_chat_data reads
ChatBegin(p) == BeginUpdate(p, "chat", FALSE)

\* the write of the user message followed at once by the fetch of the history
ChatSaveSkipsIntent(p) ==
    \E o \in WriteOutcomes :
        /\ WriteBack(p, o)
        /\ IF o = "ok"
           THEN /\ pc' = [pc EXCEPT ![p] = "get"]
                /\ UNCHANGED res
           ELSE Finish(p, update_failure(o))
        /\ UNCHANGED <<nextKey, opsLeft, op, key, msg, existing,
                       detected, history, llmCalls>>

\* step 1, second half: update_chat_data writes the user message
ChatSave(p) ==
    \E o \in WriteOutcomes :
        /\ WriteBack(p, o)
        /\ IF o = "ok"
           THEN /\ pc' = [pc EXCEPT ![p] = "intent"]
                /\ UNCHANGED res
           ELSE Finish(p, update_failure(o))
        /\ UNCHANGED <<nextKey, opsLeft, op, key, msg, existing,
                       detected, history, llmCalls>>

\* the handler is left, by return or by an exception: its locals are gone
ChatExit(p, r) ==
    /\ Finish(p, r)
    /\ detected' = [detected EXCEPT ![p] = NoIntent]
    /\ history' = [history EXCEPT ![p] = <<>>]

\* the classifier step with a compensating rollback: when it fails, the record
\* read before the append of the user message is written back
ChatIntentRollsBack(p) ==
    \E o \in LlmOutcomes, t \in IntentTexts :
        LET r == intent_detector(msg[p], o, t)
        IN  /\ llmCalls' = [llmCalls EXCEPT ![p] = @ + 1]
            /\ IF r.ok
               THEN /\ detected' = [detected EXCEPT ![p] = r.value]
                    /\ pc' = [pc EXCEPT ![p] = "get"]
                    /\ UNCHANGED <<res, history, store>>
               ELSE /\ ChatExit(p, Failure(r.exc))
                    /\ store' = [store EXCEPT ![key[p]] = existing[p]]
            /\ UNCHANGED <<nextKey, opsLeft, op, key, msg, existing, appended>>

\* the classifier step that reports its failure and lets the turn go on with
\* the questions of the unknown intent
ChatIntentGoesOn(p) ==
    \E o \in LlmOutcomes, t \in IntentTexts :
        LET r == intent_detector(msg[p], o, t)
        IN  /\ llmCalls' = [llmCalls EXCEPT ![p] = @ + 1]
            /\ pc' = [pc EXCEPT ![p] = "get"]
            /\ IF r.ok
               THEN /\ detected' = [detected EXCEPT ![p] = r.value]
                    /\ UNCHANGED res
               ELSE /\ detected' = [detected EXCEPT ![p] =
                                     [session_id |-> key[p],
                                      detected_intent |-> Lit("unknown"),
                                      questions |-> unknown_questions]]
                    /\ res' = [res EXCEPT ![p] = Failure(r.exc)]
            /\ UNCHANGED <<store, nextKey, opsLeft, op, key, msg, existing,
                           history, appended>>

\* step 2: intent_detector(user_message)
ChatIntent(p) ==
    \E o \in LlmOutcomes, t \in IntentTexts :
        LET r == intent_detector(msg[p], o, t)
        IN  /\ llmCalls' = [llmCalls EXCEPT ![p] = @ + 1]
            /\ IF r.ok
               THEN /\ detected' = [detected EXCEPT ![p] = r.value]
                    /\ pc' = [pc EXCEPT ![p] = "get"]
                    /\ UNCHANGED res
                    /\ UNCHANGED history
               ELSE ChatExit(p, Failure(r.exc))
            /\ UNCHANGED <<store, nextKey, opsLeft, op, key, msg, existing,
                           appended>>

\* the fetch of the history asked again for as long as it fails
ChatHistoryRetries(p) ==
    \E o \in ReadOutcomes :
        LET r == get_chat_data(o, store[key[p]], key[p])
        IN  /\ IF r.status = 200
               THEN /\ history' = [history EXCEPT ![p] = r.messages]
                    /\ pc' = [pc EXCEPT ![p] = "continue"]
               ELSE UNCHANGED <<history, pc>>
            /\ UNCHANGED <<res, detected>>
            /\ UNCHANGED <<store, nextKey, opsLeft, op, key, msg, existing,
                           llmCalls, appended>>

\* step 3: get_chat_data(user_message.session_id)
ChatHistory(p) ==
    \E o \in ReadOutcomes :
        LET r == get_chat_data(o, store[key[p]], key[p])
        IN  /\ IF r.status = 200
               THEN /\ history' = [history EXCEPT ![p] = r.messages]
                    /\ pc' = [pc EXCEPT ![p] = "continue"]
                    /\ UNCHANGED res
                    /\ UNCHANGED detected
               ELSE ChatExit(p, r)
            /\ UNCHANGED <<store, nextKey, opsLeft, op, key, msg, existing,
                           llmCalls, appended>>

\* step 3, second half: chatbot_continue_conversation
ChatContinue(p) ==
    \E o \in LlmOutcomes, t \in ReplyTexts :
        LET r == chatbot_continue_conversation(key[p], history[p],
                                               detected[p].questions, o, t)
        IN  /\ llmCalls' = [llmCalls EXCEPT ![p] = @ + r.calls]
            /\ IF r.ok
               THEN /\ msg' = [msg EXCEPT ![p] = r.value]
                    /\ pc' = [pc EXCEPT ![p] = "reply_read"]
                    /\ UNCHANGED res
                    /\ UNCHANGED <<detected, history>>
               ELSE /\ ChatExit(p, Failure(r.exc))
                    /\ UNCHANGED msg
            /\ UNCHANGED <<store, nextKey, opsLeft, op, key, existing, appended>>

\* step 4, first half: update_chat_data(llm_response) reads
ChatReplyRead(p, locked) ==
    \E o \in ReadOutcomes :
        LET k == msg[p].session_id
        IN  /\ MayRead(locked, p, k)
            /\ ReadExisting(p, k, o, "reply_write")
            /\ key' = [key EXCEPT ![p] = k]
            /\ IF o = "ok" /\ store[k] # NoRec
               THEN UNCHANGED <<detected, history>>
               ELSE /\ detected' = [detected EXCEPT ![p] = NoIntent]
                    /\ history' = [history EXCEPT ![p] = <<>>]
            /\ UNCHANGED <<store, nextKey, opsLeft, op, msg, llmCalls, appended>>

\* step 4, second half, and step 5: update_chat_data(llm_response) writes
\* and the handler returns llm_response
ChatReplySave(p) ==
    \E o \in WriteOutcomes :
        /\ WriteBack(p, o)
        /\ ChatExit(p, IF o = "ok" THEN Success(key[p], <<>>, msg[p])
                       ELSE update_failure(o))
        /\ UNCHANGED <<nextKey, opsLeft, op, key, msg, existing, llmCalls>>

\* the handler resumes at the await it is suspended on
ChatResume(p, locked) ==
    /\ op[p] = "chat"
    /\ pc[p] # "done"
    /\ CASE pc[p] = "upd_write" -> ChatSave(p)
         [] pc[p] = "intent" -> ChatIntent(p)
         [] pc[p] = "get" -> ChatHistory(p)
         [] pc[p] = "continue" -> ChatContinue(p)
         [] pc[p] = "reply_read" -> ChatReplyRead(p, locked)
         [] pc[p] = "reply_write" -> ChatReplySave(p)

ChatStep(p) == ChatResume(p, FALSE)

Next ==
    \E p \in Procs :
        \/ Create(p)
        \/ Delete(p)
        \/ Get(p)
        \/ UpdateRead(p)
        \/ UpdateWrite(p)
        \/ ChatBegin(p)
        \/ ChatStep(p)

Spec == Init /\ [][Next]_vars

\* The event loop resumes a suspended handler once the call it awaits has
\* answered, and every call to Redis and to the model is taken to answer, by
\* a result or by an error.
TurnFairness == \A p \in Procs : WF_vars(ChatStep(p))

SpecFair == Init /\ [][Next]_vars /\ TurnFairness

\* ------------------------------- the same tasks under a per-session lock
LockedUpdateRead(p) == BeginUpdate(p, "update", TRUE)
LockedChatBegin(p) == BeginUpdate(p, "chat", TRUE)
LockedChatStep(p) == ChatResume(p, TRUE)

NextLocked ==
    \E p \in Procs :
        \/ Create(p)
        \/ Delete(p)
        \/ Get(p)
        \/ LockedUpdateRead(p)
        \/ UpdateWrite(p)
        \/ LockedChatBegin(p)
        \/ LockedChatStep(p)

SpecLocked == Init /\ [][NextLocked]_vars

\* ------------------------------------ the model repository called directly
\* chat histories handed to chatbot_continue_conversation
HistoryMessage(role, text) ==
    [session_id |-> 1, role |-> role, timestamp |-> TsString("iso"), message |-> text]
Histories ==
    { <<>>,
      <<HistoryMessage("user", "a")>>,
      <<HistoryMessage("user", "a"), HistoryMessage("assistant", "r")>>,
      <<HistoryMessage("system", "a")>> }
QuestionLists == {unknown_questions, booking_questions, accounts_questions}

\* GoogleGeminaiRepository.intent_detector(user_message)
IntentCall(p) ==
    \E m \in ChatInput, o \in LlmOutcomes, t \in IntentTexts :
        LET r == intent_detector(m, o, t)
        IN  /\ Begin(p, "intent", m.session_id, m)
            /\ llmCalls' = [llmCalls EXCEPT ![p] = 1]
            /\ Finish(p, IF r.ok THEN Success(m.session_id, <<>>, r.value)
                         ELSE Failure(r.exc))
            /\ UNCHANGED <<store, nextKey, existing, detected, history, appended>>

\* GoogleGeminaiRepository.chatbot_continue_conversation(session_id,
\* chat_history, questions)
ContinueCall(p) ==
    \E sid \in SessionIds, h \in Histories, q \in QuestionLists,
       o \in LlmOutcomes, t \in ReplyTexts :
        LET r == chatbot_continue_conversation(sid, h, q, o, t)
        IN  /\ Begin(p, "continue", sid,
                     [session_id |-> sid, chat_history |-> h, questions |-> q])
            /\ llmCalls' = [llmCalls EXCEPT ![p] = r.calls]
            /\ Finish(p, IF r.ok THEN Success(sid, <<>>, r.value)
                         ELSE Failure(r.exc))
            /\ UNCHANGED <<store, nextKey, existing, detected, history, appended>>

\* the two methods are functions of their arguments: one caller shows them
Caller == CHOOSE p \in Procs : TRUE
NextLLM == IntentCall(Caller) \/ ContinueCall(Caller)

SpecLLM == Init /\ [][NextLLM]_vars


\* ================================================================ claims
Done(p, o) == op[p] = o /\ pc[p] = "done"
Succeeded(p, o) == Done(p, o) /\ res[p].status = 200
\* the store failed under the request (RedisError, or a falsy answer to set)
StoreFault(r) ==
    \/ r.cause.type = "RedisError"
    \/ r.cause.type = "HTTPException" /\ r.cause.status = 500
\* two messages are the same message: same sender, same text
SameMessage(a, b) == a.role = b.role /\ a.message = b.message
SameHistory(h, g) ==
    /\ Len(h) = Len(g)
    /\ \A i \in DOMAIN h : SameMessage(h[i], g[i])
\* what a get_chat_data issued in this state, answered by Redis, returns
GetNow(k) == get_chat_data("ok", store[k], k)

\* C1: right after create(m) has returned s (no append to s and no delete of s
\* since), get(s) succeeds and its messages are exactly <<m>>: one entry with
\* m's role and text.
C1_GetAfterCreate ==
    \A p \in Procs :
        (Succeeded(p, "create") /\ store[key[p]] # NoRec /\ appended[key[p]] = <<>>)
        => /\ GetNow(key[p]).status = 200
           /\ SameHistory(GetNow(key[p]).messages, <<msg[p]>>)

\* C2: when the appends to a session run one after another (SpecLocked: no
\* append reads between another append's read and write), get afterwards
\* returns the messages of the successful appends, in call order (a session
\* holds no message before its first append).
C2_GetAfterAppends ==
    \A k \in Uuids :
        (store[k] # NoRec /\ \A p \in Procs : ~(pc[p] # "done" /\ key[p] = k))
        => /\ GetNow(k).status = 200
           /\ SameHistory(GetNow(k).messages, appended[k])

\* C3: the write of an append is unconditional. Whenever two appends to one
\* session have both succeeded after reading the same record, the record in
\* the store is that record plus the message of one of them only.
C3_SameReadLosesUpdate ==
    \A p, q \in Procs :
        (/\ p # q
         /\ Succeeded(p, "update") /\ Succeeded(q, "update")
         /\ key[p] = key[q]
         /\ existing[p] = existing[q]
         /\ store[key[p]] # NoRec)
        => \/ store[key[p]] = AppendMessage(existing[p], new_message(msg[p]))
           \/ store[key[p]] = AppendMessage(existing[q], new_message(msg[q]))

\* C3, the case: two appends read the same history, both answered with
\* success, and the stored history is one message longer, not two.
C3_LostUpdate ==
    \E p, q \in Procs :
        /\ p # q
        /\ Succeeded(p, "update") /\ Succeeded(q, "update")
        /\ key[p] = key[q]
        /\ existing[p] = existing[q]
        /\ store[key[p]] # NoRec
        /\ Len(appended[key[p]]) = Len(messages_of(existing[p])) + 2
        /\ Len(messages_of(store[key[p]])) = Len(messages_of(existing[p])) + 1

\* C4: under per-session mutual exclusion (SpecLocked) no append is lost: the
\* stored history of a session is the messages of all successful appends to
\* it, in the order of their writes; so two appends in flight together are
\* both in it, in one of the two orders.
C4_LockedKeepsEveryAppend ==
    \A k \in Uuids :
        store[k] # NoRec => messages_of(store[k]) = appended[k]

\* C4, the case: two appends to one session have both succeeded, the second
\* having waited for the first, and the history holds both messages.
C4_BothAppendsStored ==
    \E p, q \in Procs :
        /\ p # q
        /\ Succeeded(p, "update") /\ Succeeded(q, "update")
        /\ key[p] = key[q]
        /\ store[key[p]] # NoRec
        /\ messages_of(store[key[p]]) = <<new_message(msg[p]), new_message(msg[q])>>
        /\ msg[p] # msg[q]

\* C5: for a non-empty message in a session, whatever text the model returns,
\* intent_detector returns a label of the catalog (unknown included): it does
\* not raise when the model call succeeded and returns no other label.
C5_LabelInCatalog ==
    \A p \in Procs :
        (/\ Done(p, "intent")
         /\ msg[p].session_id # NoneId
         /\ res[p].cause.type # "LlmError")
        => /\ res[p].status = 200
           /\ \E l \in intents : res[p].body.detected_intent = Lit(l)

\* C6: chatbot_continue_conversation called with an empty question list or
\* an empty history fails with a 400 (InvalidInput) without calling the model
\* and without a reply.
C6_EmptyInputRejected ==
    \A p \in Procs :
        (/\ Done(p, "continue")
         /\ (msg[p].questions = <<>> \/ msg[p].chat_history = <<>>))
        => /\ res[p].status = 400
           /\ llmCalls[p] = 0
           /\ res[p].body = NoMsg

\* C7: a delete that the store answers either removes the record and
\* succeeds (count 1) or, when there is no record, fails with NotFound (404):
\* so does the second of two deletes.
C7_DeleteNotFound ==
    \A p \in Procs :
        (Done(p, "delete") /\ ~StoreFault(res[p]))
        => \/ res[p].status = 200
           \/ res[p].status = 404

\* C8: when get, append or delete finds no record under the identifier (the
\* method raises its 404), the error the caller receives has status 404.
C8_AbsentIs404 ==
    \A p \in Procs :
        (/\ pc[p] = "done"
         /\ op[p] \in {"get", "update", "delete"}
         /\ res[p].cause = CauseOf(HTTPException(404, "", NoCause)))
        => res[p].status = 404

\* C9: a chat turn whose message carries no session identifier does not
\* append: it creates a session, so it cannot fail for want of a record.
C9_TurnWithoutIdCreates ==
    \A p \in Procs :
        (Done(p, "chat") /\ key[p] = NoneId)
        => /\ res[p].cause # CauseOf(HTTPException(404, "", NoCause))
           /\ res[p].status # 404

ChatStopsAtHistory ==
    \A p \in Procs : pc[p] \notin {"continue", "reply_read", "reply_write"}

\* ------------------------------------------------------- the turn's steps
\* the task has taken a step
\* (a request that repeats the task's last one, with the same result, changes
\* none of the task's own fields)
Changed(p) == pc'[p] # pc[p] \/ res'[p] # res[p] \/ op'[p] # op[p]
Acted(p) ==
    \/ Changed(p)
    \/ /\ \A q \in Procs : ~Changed(q)
       /\ \/ Create(p) \/ Delete(p) \/ Get(p)
          \/ UpdateRead(p) \/ UpdateWrite(p)
          \/ ChatBegin(p) \/ ChatStep(p)
\* the append of the message the task holds has been written
Persisted(p) ==
    \E i \in DOMAIN appended[key[p]] : appended[key[p]][i] = new_message(msg[p])
\* the awaits of chat(), each paired with the one that follows it
TurnOrder ==
    { <<"done", "upd_write">>, <<"upd_write", "intent">>, <<"intent", "get">>,
      <<"get", "continue">>, <<"continue", "reply_read">>,
      <<"reply_read", "reply_write">> }

Stored(p) ==
    /\ store[key[p]] # NoRec
    /\ \E i \in DOMAIN messages_of(store[key[p]]) :
           messages_of(store[key[p]])[i] = new_message(msg[p])

\* C13: no step of a turn undoes the append of its user message: the steps
\* between that append and the write of the reply leave the store as it is,
\* and so does the step at which the turn fails, so a user message that is in
\* the stored history when a later step fails is still there when the turn
\* has ended.
C13_NoRollback ==
    [][\A p \in Procs :
        /\ (/\ op[p] = "chat"
            /\ pc[p] \in {"intent", "get", "continue", "reply_read"}
            /\ pc'[p] # pc[p])
           => store' = store
        /\ (/\ op[p] = "chat"
            /\ pc[p] \in {"intent", "get", "continue", "reply_read", "reply_write"}
            /\ pc'[p] = "done"
            /\ res'[p].status # 200)
           => /\ store' = store
              /\ Stored(p) => Stored(p)']_vars

\* C13, the case: the classifier failed in a turn that had appended its user
\* message; the turn has ended with that error and the message is stored.
C13_MessageKeptAfterFailure ==
    \E p \in Procs :
        /\ Done(p, "chat")
        /\ res[p].status = 400
        /\ llmCalls[p] = 1
        /\ Stored(p)

\* C14: a failure ends the turn at the step where it happens. A turn for
\* which an error has been raised is over, and its caller has that error and
\* no reply; the failing step appends nothing (no reply after a classifier or
\* generation failure); a turn ended by the classifier has made that one model
\* call only; and the next step of a task whose turn is over is a new request.
C14_FailureEndsTurn ==
    /\ [](\A p \in Procs :
            op[p] = "chat"
            => /\ res[p] # NoRes => pc[p] = "done"
               /\ (pc[p] = "done" /\ res[p].status # 200) => res[p].body = NoMsg
               /\ (pc[p] = "done" /\ res[p].status = 400) => llmCalls[p] = 1)
    /\ [][\A p \in Procs :
            /\ (op[p] = "chat" /\ pc[p] # "done" /\ pc'[p] = "done"
                   /\ res'[p].status # 200)
               => (appended' = appended /\ store' = store)
            /\ (op[p] = "chat" /\ pc[p] = "done" /\ Acted(p))
               => opsLeft' = opsLeft - 1]_vars

\* C14, the case: the model call of the classifier failed; the turn ended
\* there with that error and no reply, after one model call, and the stored
\* history is the user message alone.
C14_StoppedAtClassifier ==
    \E p \in Procs :
        /\ Done(p, "chat")
        /\ res[p].cause.type = "LlmError"
        /\ res[p].body = NoMsg
        /\ llmCalls[p] = 1
        /\ store[key[p]] # NoRec
        /\ messages_of(store[key[p]]) = <<new_message(msg[p])>>

\* the 404 a repository method raises when it finds no record
NotFound404 == CauseOf(HTTPException(404, "", NoCause))
\* task p has just had its append refused for want of a record
AppendRefused(p) ==
    /\ Acted(p)
    /\ op'[p] = "update" /\ pc'[p] = "done"
    /\ res'[p].cause = NotFound404

\* C15: an append to an identifier with no stored record fails with NotFound
\* (404) and writes nothing: the store is after it what it was before.
C15_AppendToAbsent ==
    [][\A p \in Procs :
        AppendRefused(p) => (res'[p].status = 404 /\ store' = store)]_vars

\* The refused append does leave every record as it was; what differs from
\* C15 is the status the caller gets.
AppendRefusedWritesNothing ==
    [][\A p \in Procs : AppendRefused(p) => store' = store]_vars

\* C16: the identifier a create generates is one under which no session has
\* been created before (every stored record has an earlier identifier), the
\* created message carries it whatever identifier the caller sent, and the
\* create leaves the record of every other identifier as it was.
C16_CreateIsFresh ==
    /\ [](\A k \in Uuids : store[k] # NoRec => k < nextKey)
    /\ [][nextKey' # nextKey
          => /\ store[nextKey] = NoRec
             /\ \A k \in SessionIds \ {nextKey} : store'[k] = store[k]
             /\ \A p \in Procs :
                  (Acted(p) /\ op'[p] = "create")
                  => /\ key'[p] = nextKey
                     /\ msg'[p].session_id = nextKey
                     /\ store'[nextKey] # NoRec => store'[nextKey] = to_json(msg'[p])
             /\ \A q \in Procs :
                  (~Acted(q) /\ op[q] = "create") => key[q] # nextKey]_vars

\* C16, the case: a second session has been created while the first one held
\* an appended message; it has its own identifier and the first is intact.
C16_SecondSessionBesideFirst ==
    \E p \in Procs :
        /\ Succeeded(p, "create")
        /\ key[p] = 2
        /\ store[2] = to_json(msg[p])
        /\ store[1] # NoRec
        /\ store[1].session_id = 1
        /\ Len(messages_of(store[1])) = 1

StoreOps == {"create", "get", "update", "delete"}

\* C17: when Redis raises an error, or answers a write with a falsy result,
\* during create, get, append or delete, the caller gets a server error (503
\* or 500) and no result, and the failing call is not made again: the store
\* is left as it was.
C17_StoreFailureIsServerError ==
    /\ [](\A p \in Procs :
            (pc[p] = "done" /\ op[p] \in StoreOps /\ StoreFault(res[p]))
            => /\ res[p].status \in {500, 503}
               /\ res[p].session_id = NoneId
               /\ res[p].body = NoMsg)
    /\ [][\A p \in Procs :
            (Acted(p) /\ pc'[p] = "done" /\ op'[p] \in StoreOps /\ StoreFault(res'[p]))
            => (store' = store /\ appended' = appended)]_vars

\* C17, the case: Redis raised an error at the write of an append; the
\* caller has a 503 and the record is the one the append had read.
C17_WriteFailedWith503 ==
    \E p \in Procs :
        /\ Done(p, "update")
        /\ res[p].status = 503
        /\ res[p].cause.type = "RedisError"
        /\ existing[p] # NoRec
        /\ store[key[p]] = existing[p]

\* C18: a failure of the model call, in intent_detector as in
\* chatbot_continue_conversation, reaches the caller as a server error (5xx)
\* that carries the underlying error, and as no result.
C18_ModelFailureIsServerError ==
    \A p \in Procs :
        (/\ pc[p] = "done"
         /\ op[p] \in {"intent", "continue"}
         /\ res[p].cause = CauseOf(LlmError))
        => /\ res[p].status >= 500
           /\ res[p].status <= 599
           /\ res[p].body = NoMsg

\* C19: a call of intent_detector and a call of
\* chatbot_continue_conversation each call the model exactly once, whether
\* the call succeeds or fails (no retry); a turn has made no model call
\* before its classify step, one after it and at most two in all.
C19_OneModelCallEach ==
    \A p \in Procs :
        /\ (pc[p] = "done" /\ op[p] \in {"intent", "continue"}) => llmCalls[p] = 1
        /\ op[p] = "chat"
           => /\ llmCalls[p] <= 2
              /\ pc[p] \in {"upd_write", "intent"} => llmCalls[p] = 0
              /\ pc[p] \in {"get", "continue"} => llmCalls[p] = 1

\* C19, the case: the model call of the responder failed and the responder
\* raised after that one call.
C19_FailedCallNotRepeated ==
    \E p \in Procs :
        /\ Done(p, "continue")
        /\ res[p].cause = CauseOf(LlmError)
        /\ res[p].status = 500
        /\ llmCalls[p] = 1

\* C20: a reply that chatbot_continue_conversation returns has the role
\* assistant and the session identifier the call was given, which in a turn
\* is that of the inbound message; the turn writes the reply under the
\* identifier its user message was written under, and returns that reply.
C20_ReplyBelongsToSession ==
    \A p \in Procs :
        /\ Succeeded(p, "continue")
           => /\ res[p].body.role = "assistant"
              /\ res[p].body.session_id = msg[p].session_id
              /\ res[p].body.session_id = key[p]
        /\ (op[p] = "chat" /\ pc[p] \in {"reply_read", "reply_write"})
           => /\ msg[p].role = "assistant"
              /\ msg[p].session_id = key[p]
        /\ Succeeded(p, "chat")
           => /\ res[p].body.role = "assistant"
              /\ res[p].body.session_id = key[p]

\* C20, the case: the responder, called for a session, has returned a reply:
\* an assistant message carrying that session's identifier.
C20_ReplyForSession ==
    \E p \in Procs :
        /\ Succeeded(p, "continue")
        /\ key[p] \in Uuids
        /\ msg[p].chat_history # <<>>
        /\ res[p].body.role = "assistant"
        /\ res[p].body.session_id = key[p]

\* task p has just deleted the record of key k
Deleted(p, k) == Acted(p) /\ op'[p] = "delete" /\ key'[p] = k

\* C21: a session that has been created stays retrievable: as long as its
\* record is stored, a get of it that Redis answers succeeds, and the record
\* leaves the store only by a delete of its identifier.
C21_StaysRetrievable ==
    /\ [](\A k \in Uuids : store[k] # NoRec => GetNow(k).status = 200)
    /\ [][\A k \in Uuids :
            (store[k] # NoRec /\ store'[k] = NoRec)
            => \E p \in Procs : Deleted(p, k)]_vars

\* A record leaves the store only by a delete of its identifier; what differs
\* from C21 is that a get of a session with messages fails.
OnlyDeleteRemoves ==
    [][\A k \in Uuids :
        (store[k] # NoRec /\ store'[k] = NoRec)
        => \E p \in Procs : Deleted(p, k)]_vars

\* C22: a turn answers with a reply only when the write of that reply has
\* succeeded: the reply its caller has is then the last appended message of
\* the session, and a turn whose reply could not be written has an error and
\* no reply. (ChatStopsAtHistory: no turn of the handler gets as far as the
\* reply, so no reachable state has a turn with a reply.)
C22_ReplyOnlyAfterWrite ==
    \A p \in Procs :
        /\ Succeeded(p, "chat")
           => /\ res[p].body # NoMsg
              /\ \E i \in DOMAIN appended[key[p]] :
                     appended[key[p]][i] = new_message(res[p].body)
        /\ (Done(p, "chat") /\ res[p].status # 200) => res[p].body = NoMsg

\* C23: an exception inside create, get, append or delete that is neither
\* NotFound nor a Redis failure (here the ValueError and the validation error
\* of get) reaches the caller as a 500 that carries it; NotFound reaches the
\* caller with its own status 404 and a Redis failure with 503.
C23_OnlyUncataloguedWrapped ==
    \A p \in Procs :
        (pc[p] = "done" /\ op[p] \in StoreOps /\ res[p].status # 200)
        => /\ res[p].cause.type \in {"ValueError", "ValidationError"}
                => res[p].status = 500
           /\ res[p].cause.type = "RedisError" => res[p].status = 503
           /\ res[p].cause = NotFound404 => res[p].status = 404

\* The uncatalogued exceptions and the Redis failures do reach the caller as
\* C23 says; what differs is the status of NotFound.
UncataloguedIs500 ==
    \A p \in Procs :
        (pc[p] = "done" /\ op[p] \in StoreOps /\ res[p].status # 200)
        => /\ res[p].cause.type \in {"ValueError", "ValidationError"}
                => res[p].status = 500
           /\ res[p].cause.type = "RedisError" => res[p].status = 503

\* C24: a get, and the classify, fetch and generate steps of a turn, leave
\* the record of every session as it was, whether they succeed or fail; the
\* store changes only in a create, a delete or the write of an append.
C24_ReadOnlySteps ==
    /\ [][\A p \in Procs :
        (\/ Get(p)
         \/ /\ op[p] = "chat"
            /\ pc[p] \in {"intent", "get", "continue"}
            /\ pc'[p] # pc[p])
        => store' = store]_vars
    /\ [][store' # store
          => \E p \in Procs :
                 /\ Acted(p)
                 /\ \/ op'[p] \in {"create", "delete"}
                    \/ pc[p] \in {"upd_write", "reply_write"}]_vars

\* C24, the case: a get of a session with a message has failed and the
\* record it read is still stored, with that message.
C24_FailedGetLeftRecord ==
    \E p \in Procs :
        /\ Done(p, "get")
        /\ res[p].status = 500
        /\ res[p].cause.type \in {"ValueError", "ValidationError"}
        /\ store[key[p]] # NoRec
        /\ messages_of(store[key[p]]) = appended[key[p]]
        /\ Len(appended[key[p]]) = 1

\* the question list the catalog gives for a label
QuestionsFor(word) ==
    CASE word = "booking" -> booking_questions
      [] word = "quote" -> quote_questions
      [] word = "build lead times" -> build_lead_times_questions
      [] word = "accounts" -> accounts_questions
      [] OTHER -> <<>>

C26_DeletedStaysDeleted ==
    \A p \in Procs :
        Succeeded(p, "delete") => store[key[p]] = NoRec

\* C27: sessions are isolated: whenever the record stored under an identifier
\* changes, the step is one of a request on that identifier (a create that
\* generated it, an append or a turn addressed to it, a delete of it); a
\* request on one session changes the record of no other.
C27_SessionIsolation ==
    [][\A k \in SessionIds :
        store'[k] # store[k]
        => /\ \E p \in Procs : Acted(p) /\ key'[p] = k
           /\ \A j \in SessionIds \ {k} : store'[j] = store[j]]_vars

\* C27, the case: a message has been appended to the second of two sessions
\* and the first one is as it was created.
C27_AppendBesideOtherSession ==
    \E p \in Procs :
        /\ Succeeded(p, "update")
        /\ key[p] = 2
        /\ Len(messages_of(store[2])) = 1
        /\ store[1] # NoRec
        /\ store[1].session_id = 1
        /\ messages_of(store[1]) = <<>>

\* C28: a turn addressed to an identifier under which no record is stored
\* ends at its first step, the append of the user message, with an error: it
\* has called the model not once and the store is as it was.
C28_TurnOnAbsentSessionStops ==
    [][\A p \in Procs :
        (/\ pc[p] = "done" /\ Acted(p)
         /\ op'[p] = "chat"
         /\ store[key'[p]] = NoRec)
        => /\ pc'[p] = "done"
           /\ res'[p].status \notin {0, 200}
           /\ res'[p].body = NoMsg
           /\ llmCalls'[p] = 0
           /\ store' = store
           /\ appended' = appended]_vars

\* C28, the case: a turn was addressed to an identifier without a record; it
\* has ended with the error of the append, without a model call or a record.
C28_TurnRefused ==
    \E p \in Procs :
        /\ Done(p, "chat")
        /\ key[p] \in Uuids
        /\ res[p].cause = NotFound404
        /\ llmCalls[p] = 0
        /\ store[key[p]] = NoRec

\* C29: every stored record has, as its top-level session_id, the key it is
\* stored under: create writes the generated key into the record and an
\* append writes the record back with the session_id it read.
C29_RecordCarriesItsKey ==
    \A k \in SessionIds :
        store[k] # NoRec => store[k].session_id = k

\* C29, the case: the second session created has been appended to; its
\* record still carries its own key.
C29_AppendedRecordCarriesKey ==
    /\ store[2] # NoRec
    /\ store[2].session_id = 2
    /\ Len(messages_of(store[2])) = 1
    /\ \E p \in Procs : Succeeded(p, "update") /\ key[p] = 2

\* C30: every turn ends. A started turn can always take its next step,
\* whatever the other tasks are doing (it waits for no other turn), and, its
\* calls being answered and its task being scheduled (SpecFair), it ends with
\* a result for its caller: a reply or one error.
C30_TurnTerminates ==
    /\ [](\A p \in Procs :
            (op[p] = "chat" /\ pc[p] # "done") => ENABLED ChatStep(p))
    /\ \A p \in Procs :
            (op[p] = "chat" /\ pc[p] # "done")
            ~> (op[p] = "chat" /\ pc[p] = "done" /\ res[p] # NoRes)

\* C30, the case: two turns on one session ran side by side and both have
\* ended, each with a result for its caller.
C30_BothTurnsEnded ==
    /\ \A p \in Procs : Done(p, "chat") /\ res[p] # NoRes /\ llmCalls[p] = 1
    /\ key[1] = key[2]
    /\ key[1] \in Uuids

====
